---- MODULE Spec2Model ----
(***************************************************************************)
(* A model of esp_idf_monitor.base.logger.Logger: the timestamping print,  *)
(* the log-file lifecycle and the address annotator, with the collaborators*)
(* (console writer, file system, clock, symbol resolver, address matchers) *)
(* as nondeterministic inputs of the actions.                              *)
(*                                                                         *)
(* A Python str or bytes value is a record [text, s]: text tells str from  *)
(* bytes, s is the sequence of its characters (one-character strings).     *)
(***************************************************************************)
EXTENDS Integers, Sequences, FiniteSets

\* ------------------------------------------------------------------ bounds
\* Print calls made by the caller in one behaviour.
MaxPrints == 2
\* Toggle / start / stop calls in one behaviour.
MaxToggles == 2
\* Calls of handle_possible_pc_address_in_line in one behaviour.
MaxHandles == 1
\* Lines printed, and toggles made, in a behaviour of the annotator.
MaxLinePrints == 1
MaxLineToggles == 1
\* Chunked delivery: the longest text over the alphabet, the calls made before
\* the text is chosen, and the empty chunks delivered.
MaxText == 3
MaxSetup == 1
MaxEmpty == 1
\* Seconds the wall clock can advance.
MaxClock == 1
\* Collaborator failures (open, write, close, console) injected in one behaviour.
MaxFailures == 1

\* ------------------------------------------------------- strings and bytes
NL == "\n"
SP == " "
\* A character outside ASCII (U+00E9); its UTF-8 encoding is two bytes.
EAcute == "U+E9"

Str(s) == [text |-> TRUE, s |-> s]
Bytes(s) == [text |-> FALSE, s |-> s]

\* str.encode() for one character (UTF-8).
Utf8(c) == IF c = EAcute THEN <<"xC3", "xA9">> ELSE <<c>>

RECURSIVE EncodeSeq(_)
EncodeSeq(s) == IF s = <<>> THEN <<>> ELSE Utf8(Head(s)) \o EncodeSeq(Tail(s))

\* Lines 137-138: a str is encoded before it is written, bytes are written as is.
Encode(string) == IF string.text THEN Bytes(EncodeSeq(string.s)) ELSE string

\* string.endswith(new_line_char)
EndsWithNL(s) == Len(s) > 0 /\ s[Len(s)] = NL

\* string[:-len(new_line_char)]
DropLast(s) == SubSeq(s, 1, Len(s) - 1)

\* string.replace(new_line_char, new_line_char + line_prefix)
RECURSIVE ReplaceNL(_, _)
ReplaceNL(s, prefix) ==
    IF s = <<>> THEN <<>>
    ELSE IF Head(s) = NL THEN <<NL>> \o prefix \o ReplaceNL(Tail(s), prefix)
    ELSE <<Head(s)>> \o ReplaceNL(Tail(s), prefix)

\* datetime.datetime.now().strftime(self.timestamp_format): the text of the
\* clock reading, one symbol per second of the clock.
TimeStr == <<"T0", "T1", "T2", "T3", "T4", "T5">>
Strftime(clock) == TimeStr[clock + 1]

\* Lines 111-114: line_prefix = t + ' ' (the same characters for str and bytes).
LinePrefix(clock) == <<Strftime(clock), SP>>

\* Format with the prefix put before every chunk, whatever _start_of_line says.
FormatAlwaysPrefix(string, ts, outEn, logOpen, sol, clock) ==
    IF string.s # <<>> /\ ts /\ (outEn \/ logOpen)
    THEN LET prefix == LinePrefix(clock)
             s1 == prefix \o string.s
             newSol == EndsWithNL(s1)
             s2 == IF newSol THEN DropLast(s1) ELSE s1
             s3 == ReplaceNL(s2, prefix)
             s4 == IF newSol THEN Append(s3, NL) ELSE s3
         IN [out |-> [text |-> string.text, s |-> s4], sol |-> newSol]
    ELSE IF string.s # <<>>
    THEN [out |-> string, sol |-> EndsWithNL(string.s)]
    ELSE [out |-> string, sol |-> sol]

\* Format without the removal of the final newline before the replacement.
FormatKeepFinalNL(string, ts, outEn, logOpen, sol, clock) ==
    IF string.s # <<>> /\ ts /\ (outEn \/ logOpen)
    THEN LET prefix == LinePrefix(clock)
             s1 == IF sol THEN prefix \o string.s ELSE string.s
         IN [out |-> [text |-> string.text, s |-> ReplaceNL(s1, prefix)],
             sol |-> EndsWithNL(s1)]
    ELSE IF string.s # <<>>
    THEN [out |-> string, sol |-> EndsWithNL(string.s)]
    ELSE [out |-> string, sol |-> sol]

\* Format without the elif branch: _start_of_line is tracked only while the
\* chunks are timestamped.
FormatTracksWhenStamping(string, ts, outEn, logOpen, sol, clock) ==
    IF string.s # <<>> /\ ts /\ (outEn \/ logOpen)
    THEN LET prefix == LinePrefix(clock)
             s1 == IF sol THEN prefix \o string.s ELSE string.s
             newSol == EndsWithNL(s1)
             s2 == IF newSol THEN DropLast(s1) ELSE s1
             s3 == ReplaceNL(s2, prefix)
             s4 == IF newSol THEN Append(s3, NL) ELSE s3
         IN [out |-> [text |-> string.text, s |-> s4], sol |-> newSol]
    ELSE [out |-> string, sol |-> sol]

\* Format without the test of the chunk being non-empty.
FormatStampsEmpty(string, ts, outEn, logOpen, sol, clock) ==
    IF ts /\ (outEn \/ logOpen)
    THEN LET prefix == LinePrefix(clock)
             s1 == IF sol THEN prefix \o string.s ELSE string.s
             newSol == EndsWithNL(s1)
             s2 == IF newSol THEN DropLast(s1) ELSE s1
             s3 == ReplaceNL(s2, prefix)
             s4 == IF newSol THEN Append(s3, NL) ELSE s3
         IN [out |-> [text |-> string.text, s |-> s4], sol |-> newSol]
    ELSE [out |-> string, sol |-> EndsWithNL(string.s)]

\* Lines 107-131 of Logger.print: the string handed to the sinks and the new
\* _start_of_line, from the chunk, the toggles and the clock.
Format(string, ts, outEn, logOpen, sol, clock) ==
    IF string.s # <<>> /\ ts /\ (outEn \/ logOpen)
    THEN LET prefix == LinePrefix(clock)
             s1 == IF sol THEN prefix \o string.s ELSE string.s
             newSol == EndsWithNL(s1)
             s2 == IF newSol THEN DropLast(s1) ELSE s1
             s3 == ReplaceNL(s2, prefix)
             s4 == IF newSol THEN Append(s3, NL) ELSE s3
         IN [out |-> [text |-> string.text, s |-> s4], sol |-> newSol]
    ELSE IF string.s # <<>>
    THEN [out |-> string, sol |-> EndsWithNL(string.s)]
    ELSE [out |-> string, sol |-> sol]

\* ------------------------------------------------------------------ state
VARIABLES
    log_file,                \* 0 for None, else the index in handles of the open file object
    log_filename,            \* TRUE when a log file base name was configured
    output_enabled,          \* _output_enabled
    start_of_line,           \* _start_of_line
    timestamps,
    pc_address_buffer,       \* _pc_address_buffer, a sequence of bytes
    enable_address_decoding,
    rom_elf_file,            \* TRUE when a ROM ELF file was configured
    console,                 \* the successful console_printer calls, in order
    handles,                 \* every file object open() returned: [name, closed, written]
    disk,                    \* file name -> the bytes of the file
    notices,                 \* the red_print / yellow_print notices, in order
    now,                     \* the wall clock, in seconds
    last,                    \* what the last operation was and what it did
    calls,                   \* how many calls and injected failures so far
    job,                     \* chunked delivery: the whole text and the state it started from
    pending,                 \* chunked delivery: the text not yet delivered
    stream,                  \* chunked delivery: the chunks printed and the strings emitted
    threads                  \* where the call in progress on each of two threads stands

vars == <<log_file, log_filename, output_enabled, start_of_line, timestamps,
          pc_address_buffer, enable_address_decoding, rom_elf_file, console,
          handles, disk, notices, now, last, calls, job, pending, stream, threads>>

\* The mutable fields of the Logger and of its collaborators, as one record
\* the operations below transform; ev collects the print events of the
\* operation in progress, rc its resolver calls, open and close what became
\* of its open() and close() calls, raised whether an exception reached the
\* caller.
Cur == [log_file |-> log_file, output_enabled |-> output_enabled,
        start_of_line |-> start_of_line, timestamps |-> timestamps,
        pc_address_buffer |-> pc_address_buffer, console |-> console,
        handles |-> handles, disk |-> disk, notices |-> notices,
        ev |-> <<>>, rc |-> <<>>, open |-> "skipped", close |-> "skipped",
        raised |-> FALSE]

Commit(st) ==
    /\ log_file' = st.log_file
    /\ output_enabled' = st.output_enabled
    /\ start_of_line' = st.start_of_line
    /\ timestamps' = st.timestamps
    /\ pc_address_buffer' = st.pc_address_buffer
    /\ console' = st.console
    /\ handles' = st.handles
    /\ disk' = st.disk
    /\ notices' = st.notices

Notice(st, kind) == [st EXCEPT !.notices = Append(@, kind)]

\* Lines 75-79: the file name, from the configured base name or the ELF
\* file's name, and the clock reading to the second.
LogName(clock) ==
    IF log_filename THEN <<"log_filename", Strftime(clock), "log">>
    ELSE <<"log", "elf_file", Strftime(clock), "txt">>

\* open(name, 'wb+'): a new file object on a file that is created, or
\* truncated when it exists.
OpenWb(st, name) ==
    [st EXCEPT !.handles = Append(@, [name |-> name, closed |-> FALSE, written |-> <<>>]),
               !.disk = [n \in (DOMAIN @) \cup {name} |-> IF n = name THEN <<>> ELSE @[n]]]

\* start_logging with the open outside the try: the exception reaches the caller.
start_logging_unguarded(st, clock, openFails) ==
    IF st.log_file = 0
    THEN IF ~openFails
         THEN LET s1 == OpenWb(st, LogName(clock))
              IN Notice([s1 EXCEPT !.log_file = Len(s1.handles), !.open = "ok"], "enabled")
         ELSE [st EXCEPT !.open = "failed", !.raised = TRUE]
    ELSE st

\* start_logging without the test of _log_file: it opens a file whenever called.
start_logging_always(st, clock, openFails) ==
    IF ~openFails
    THEN LET s1 == OpenWb(st, LogName(clock))
         IN Notice([s1 EXCEPT !.log_file = Len(s1.handles), !.open = "ok"], "enabled")
    ELSE Notice([st EXCEPT !.open = "failed"], "create_failed")

\* Lines 73-84 of Logger.start_logging.
start_logging(st, clock, openFails) ==
    IF st.log_file = 0
    THEN IF ~openFails
         THEN LET s1 == OpenWb(st, LogName(clock))
              IN Notice([s1 EXCEPT !.log_file = Len(s1.handles), !.open = "ok"], "enabled")
         ELSE Notice([st EXCEPT !.open = "failed"], "create_failed")
    ELSE st

\* _log_file.close(): the file object is closed whether or not close() raised
\* (the descriptor is released before a flush error is re-raised).
CloseFile(st) == [st EXCEPT !.handles[st.log_file].closed = TRUE]

\* stop_logging without the finally clause: _log_file is set to None only
\* after a close that succeeded.
stop_logging_without_finally(st, closeFails) ==
    IF st.log_file # 0
    THEN LET s1 == CloseFile(st)
         IN IF closeFails
            THEN [Notice(s1, "close_failed") EXCEPT !.close = "failed"]
            ELSE [Notice(s1, "disabled") EXCEPT !.log_file = 0, !.close = "ok"]
    ELSE st

\* Lines 86-95 of Logger.stop_logging.
stop_logging(st, closeFails) ==
    IF st.log_file # 0
    THEN LET s1 == CloseFile(st)
             s2 == IF closeFails THEN Notice(s1, "close_failed") ELSE Notice(s1, "disabled")
         IN [s2 EXCEPT !.log_file = 0, !.close = IF closeFails THEN "failed" ELSE "ok"]
    ELSE st

\* Lines 64-68 of Logger.toggle_logging.
toggle_logging(st, clock, openFails, closeFails) ==
    IF st.log_file # 0 THEN stop_logging(st, closeFails)
    ELSE start_logging(st, clock, openFails)

\* _log_file.write(bytes) on the open file object.
WriteFile(st, bytes) ==
    LET h == st.log_file
        name == st.handles[h].name
    IN [st EXCEPT !.handles[h].written = @ \o bytes,
                  !.disk[name] = @ \o bytes]

\* What the collaborators do during one print: does the console printer
\* raise, does the log write raise, does the close that follows raise.
NoFail == [con |-> FALSE, wr |-> FALSE, cl |-> FALSE]
PrintOracles == [con : BOOLEAN, wr : BOOLEAN, cl : BOOLEAN]

\* print without the stop_logging that follows a failed write.
print_keeps_logging(st, string, printer, clock, orc) ==
    LET f == Format(string, st.timestamps, st.output_enabled, st.log_file # 0,
                    st.start_of_line, clock)
        s1 == [st EXCEPT !.start_of_line = f.sol]
        conCalled == st.output_enabled
        conRaised == conCalled /\ orc.con
        s2 == IF conCalled /\ ~conRaised
              THEN [s1 EXCEPT !.console = Append(@, [printer |-> printer, str |-> f.out])]
              ELSE s1
        wrCalled == st.log_file # 0 /\ ~conRaised
        wrFailed == wrCalled /\ orc.wr
        s3 == IF wrCalled /\ ~wrFailed THEN WriteFile(s2, Encode(f.out).s) ELSE s2
        s4 == IF wrFailed THEN Notice(s3, "write_failed") ELSE s3
        e == [inp |-> string, out |-> f.out, printer |-> printer,
              con |-> IF ~conCalled THEN "skipped" ELSE IF conRaised THEN "raised" ELSE "ok",
              wr |-> IF ~wrCalled THEN "skipped" ELSE IF wrFailed THEN "failed" ELSE "ok",
              cl |-> "skipped"]
    IN [s4 EXCEPT !.ev = Append(@, e), !.raised = conRaised]

\* print that writes the chunk as it came to the log file, not the string the
\* console was given.
print_logs_chunk(st, string, printer, clock, orc) ==
    LET f == Format(string, st.timestamps, st.output_enabled, st.log_file # 0,
                    st.start_of_line, clock)
        s1 == [st EXCEPT !.start_of_line = f.sol]
        conCalled == st.output_enabled
        conRaised == conCalled /\ orc.con
        s2 == IF conCalled /\ ~conRaised
              THEN [s1 EXCEPT !.console = Append(@, [printer |-> printer, str |-> f.out])]
              ELSE s1
        wrCalled == st.log_file # 0 /\ ~conRaised
        wrFailed == wrCalled /\ orc.wr
        s3 == IF wrCalled /\ ~wrFailed THEN WriteFile(s2, Encode(string).s) ELSE s2
        s4 == IF wrFailed THEN stop_logging(Notice(s3, "write_failed"), orc.cl) ELSE s3
        e == [inp |-> string, out |-> f.out, printer |-> printer,
              con |-> IF ~conCalled THEN "skipped" ELSE IF conRaised THEN "raised" ELSE "ok",
              wr |-> IF ~wrCalled THEN "skipped" ELSE IF wrFailed THEN "failed" ELSE "ok",
              cl |-> IF ~wrFailed THEN "skipped" ELSE IF orc.cl THEN "failed" ELSE "ok"]
    IN [s4 EXCEPT !.ev = Append(@, e), !.raised = conRaised]

\* Lines 97-143 of Logger.print.
print(st, string, printer, clock, orc) ==
    LET f == Format(string, st.timestamps, st.output_enabled, st.log_file # 0,
                    st.start_of_line, clock)
        s1 == [st EXCEPT !.start_of_line = f.sol]
        conCalled == st.output_enabled
        conRaised == conCalled /\ orc.con
        s2 == IF conCalled /\ ~conRaised
              THEN [s1 EXCEPT !.console = Append(@, [printer |-> printer, str |-> f.out])]
              ELSE s1
        wrCalled == st.log_file # 0 /\ ~conRaised
        wrFailed == wrCalled /\ orc.wr
        s3 == IF wrCalled /\ ~wrFailed THEN WriteFile(s2, Encode(f.out).s) ELSE s2
        s4 == IF wrFailed THEN stop_logging(Notice(s3, "write_failed"), orc.cl) ELSE s3
        e == [inp |-> string, out |-> f.out, printer |-> printer,
              con |-> IF ~conCalled THEN "skipped" ELSE IF conRaised THEN "raised" ELSE "ok",
              wr |-> IF ~wrCalled THEN "skipped" ELSE IF wrFailed THEN "failed" ELSE "ok",
              cl |-> IF ~wrFailed THEN "skipped" ELSE IF orc.cl THEN "failed" ELSE "ok"]
    IN [s4 EXCEPT !.ev = Append(@, e), !.raised = conRaised]

\* Lines 145-148 of Logger.output_toggle.
output_toggle(st) ==
    Notice([st EXCEPT !.output_enabled = ~@], "toggle_output")

\* Lines 70-71 of Logger.toggle_timestamps.
toggle_timestamps(st) == [st EXCEPT !.timestamps = ~@]

\* -------------------------------------------------------------- annotator
HexDigits == {"0", "1", "2", "3", "4", "5", "6", "7", "8", "9",
              "a", "b", "c", "d", "e", "f", "A", "B", "C", "D", "E", "F"}

HexVal(c) ==
    CASE c = "0" -> 0 [] c = "1" -> 1 [] c = "2" -> 2 [] c = "3" -> 3
      [] c = "4" -> 4 [] c = "5" -> 5 [] c = "6" -> 6 [] c = "7" -> 7
      [] c = "8" -> 8 [] c = "9" -> 9
      [] c \in {"a", "A"} -> 10 [] c \in {"b", "B"} -> 11 [] c \in {"c", "C"} -> 12
      [] c \in {"d", "D"} -> 13 [] c \in {"e", "E"} -> 14 [] c \in {"f", "F"} -> 15

\* int(num, 16) of the digits after the "0x".
RECURSIVE Int16From(_, _)
Int16From(digits, acc) ==
    IF digits = <<>> THEN acc
    ELSE Int16From(Tail(digits), acc * 16 + HexVal(Head(digits)))

Int16(num) == Int16From(SubSeq(num, 3, Len(num)), 0)

\* ADDRESS_RE: "0x" and eight hexadecimal digits, whatever the case.
AddrDigits == 8

MatchAt(chars, i) ==
    /\ i + 1 + AddrDigits <= Len(chars)
    /\ chars[i] = "0"
    /\ chars[i + 1] \in {"x", "X"}
    /\ \A k \in 2..(1 + AddrDigits) : chars[i + k] \in HexDigits

\* re.finditer(ADDRESS_RE, text): the matches from left to right, none
\* overlapping another.
RECURSIVE FindIter(_, _)
FindIter(chars, i) ==
    IF i > Len(chars) THEN <<>>
    ELSE IF MatchAt(chars, i)
    THEN <<SubSeq(chars, i, i + 1 + AddrDigits)>> \o FindIter(chars, i + 2 + AddrDigits)
    ELSE FindIter(chars, i + 1)

\* line.decode(errors='ignore'): UTF-8, dropping the bytes that decode to nothing.
RECURSIVE DecodeFrom(_, _)
DecodeFrom(bytes, i) ==
    IF i > Len(bytes) THEN <<>>
    ELSE IF bytes[i] = "xC3" /\ i < Len(bytes) /\ bytes[i + 1] = "xA9"
    THEN <<EAcute>> \o DecodeFrom(bytes, i + 2)
    ELSE IF bytes[i] \in {"xC3", "xA9"} THEN DecodeFrom(bytes, i + 1)
    ELSE <<bytes[i]>> \o DecodeFrom(bytes, i + 1)

Decode(bytes) == CHOOSE r \in {DecodeFrom(b, 1) : b \in {bytes}} : TRUE

\* Line 155: the matches of ADDRESS_RE in the decoded line.
Matches(line) == CHOOSE r \in {FindIter(chars, 1) : chars \in {Decode(line)}} : TRUE

\* The executable sections of the two images, [start, end): the app image
\* has 0x400d1000-0x400d2000 and 0x400d5000-0x400d6000, the ROM image
\* 0x40000000-0x40060000 and, as the ranges of two images may overlap,
\* 0x400d5000-0x400d6000 too.
AppRanges == {[start |-> 1074597888, end |-> 1074601984],
              [start |-> 1074614272, end |-> 1074618368]}
RomRanges == {[start |-> 1073741824, end |-> 1074135040],
              [start |-> 1074614272, end |-> 1074618368]}

\* PcAddressMatcher.is_executable_address
is_executable_address(ranges, addr) ==
    \E r \in ranges : r.start <= addr /\ addr < r.end

\* A translation is a str or None.
None == [some |-> FALSE, s |-> <<>>]
Some(s) == [some |-> TRUE, s |-> s]

\* What the symbolizer says of an address, when it says something.
Description(address_int, is_rom) ==
    IF is_rom THEN <<"rom_fn in ROM">>
    ELSE IF address_int = 1074598452 THEN <<"func_a at a.c:10">>
    ELSE IF address_int = 1074615928 THEN <<"func_b at b.c:20">>
    ELSE <<"func_c at c.c:30">>

\* lookup_pc_address: None, the description, or the description and a newline.
ResolverKinds == {"none", "plain", "nl"}
lookup_pc_address(num, is_rom, kind) ==
    IF kind = "none" THEN None
    ELSE IF kind = "plain" THEN Some(Description(Int16(num), is_rom))
    ELSE Some(Append(Description(Int16(num), is_rom), NL))

\* annotate_one without the question to the matchers: every match is resolved
\* against the app image.
annotate_one_unchecked(st, num, clock, o) ==
    LET address_int == Int16(num)
        t1 == lookup_pc_address(num, FALSE, o.app)
        s1 == [st EXCEPT !.rc = Append(@, [num |-> num, is_rom |-> FALSE])]
    IN IF t1.some THEN print(s1, Str(t1.s), "yellow_print", clock, o.io) ELSE s1

\* Lines 156-169: the body of the loop of handle_possible_pc_address_in_line
\* for one match; o tells what the resolver and the sinks do.
annotate_one(st, num, clock, o) ==
    LET address_int == Int16(num)
        appExec == is_executable_address(AppRanges, address_int)
        t1 == IF appExec THEN lookup_pc_address(num, FALSE, o.app) ELSE None
        s1 == IF appExec
              THEN [st EXCEPT !.rc = Append(@, [num |-> num, is_rom |-> FALSE])]
              ELSE st
        romTried == /\ ~t1.some
                    /\ rom_elf_file
                    /\ is_executable_address(RomRanges, address_int)
        t2 == IF romTried THEN lookup_pc_address(num, TRUE, o.rom) ELSE t1
        s2 == IF romTried
              THEN [s1 EXCEPT !.rc = Append(@, [num |-> num, is_rom |-> TRUE])]
              ELSE s1
    IN IF t2.some THEN print(s2, Str(t2.s), "yellow_print", clock, o.io) ELSE s2

\* Lines 155-169: the loop over the matches; an exception of a print ends it.
RECURSIVE annotate(_, _, _, _)
annotate(st, ms, clock, orcs) ==
    IF ms = <<>> \/ st.raised THEN st
    ELSE annotate(annotate_one(st, Head(ms), clock, Head(orcs)),
                  Tail(ms), clock, Tail(orcs))

\* handle_possible_pc_address_in_line that returns, when address decoding is
\* disabled, before it touches the buffer.
handle_line_returning_early(st, line, clock, orcs) ==
    LET full == st.pc_address_buffer \o line
        s1 == [st EXCEPT !.pc_address_buffer = <<>>]
    IN IF ~enable_address_decoding THEN st
       ELSE annotate(s1, Matches(full), clock, orcs)

\* handle_possible_pc_address_in_line that scans the line alone: what the
\* buffer holds is dropped, not prepended.
handle_line_without_buffer(st, line, clock, orcs) ==
    LET s1 == [st EXCEPT !.pc_address_buffer = <<>>]
    IN IF ~enable_address_decoding THEN s1
       ELSE annotate(s1, Matches(line), clock, orcs)

\* Lines 150-169 of Logger.handle_possible_pc_address_in_line.
handle_possible_pc_address_in_line(st, line, clock, orcs) ==
    LET full == st.pc_address_buffer \o line
        s1 == [st EXCEPT !.pc_address_buffer = <<>>]
    IN IF ~enable_address_decoding THEN s1
       ELSE annotate(s1, Matches(full), clock, orcs)

\* ----------------------------------------------------------------- inputs
Tok400d1234 == <<"0", "x", "4", "0", "0", "d", "1", "2", "3", "4">>
Tok400d5678 == <<"0", "x", "4", "0", "0", "d", "5", "6", "7", "8">>
Tok40001234 == <<"0", "x", "4", "0", "0", "0", "1", "2", "3", "4">>
Tok12345678 == <<"0", "x", "1", "2", "3", "4", "5", "6", "7", "8">>

\* b"Backtrace: 0x400d1234 0x400d5678\n"
BacktraceLine ==
    <<"B", "a", "c", "k", "t", "r", "a", "c", "e", ":", SP>> \o Tok400d1234
        \o <<SP>> \o Tok400d5678 \o <<NL>>

\* The chunks the caller prints.
Chunks == {Bytes(<<>>), Bytes(<<"a">>), Bytes(BacktraceLine), Str(<<EAcute, NL>>)}

\* The lines handed to handle_possible_pc_address_in_line.
Lines == {<<"p", "c", SP>> \o Tok12345678 \o <<NL>>,
          Tok40001234 \o <<NL>>,
          BacktraceLine,
          <<"0", "d", "1", "2", "3", "4", NL>>}

\* The values the caller stores in pc_address_buffer.
BufferValues == {<<>>, <<"0", "x", "4", "0">>}

\* Line 139, _log_file.write(string) on the buffered file object open()
\* returned: a write of no bytes reaches neither the buffer's flush nor the
\* descriptor, so it is a write of some bytes that can raise.
WriteCanFail(string) == string.s # <<>>

\* The oracles of one print that differ in what they make happen in st, with
\* at most budget failures.
IoOracles(st, budget) ==
    {o \in PrintOracles :
        /\ o.con => (st.output_enabled /\ budget > 0)
        /\ o.wr => (st.log_file # 0 /\ ~o.con /\ budget > 0)
        /\ o.cl => (o.wr /\ budget > 1)}

\* The oracles of one match of the annotator.
MatchOracles(st, num, budget) ==
    LET a == Int16(num)
        appExec == is_executable_address(AppRanges, a)
        romExec == rom_elf_file /\ is_executable_address(RomRanges, a)
    IN {o \in [app : ResolverKinds, rom : ResolverKinds, io : IoOracles(st, budget)] :
            /\ ~appExec => o.app = "none"
            /\ (~romExec \/ o.app # "none") => o.rom = "none"
            /\ (o.app = "none" /\ o.rom = "none") => o.io = NoFail}

RECURSIVE OracleSeqs(_, _, _)
OracleSeqs(st, ms, budget) ==
    IF ms = <<>> THEN {<<>>}
    ELSE {<<o>> \o rest : o \in MatchOracles(st, Head(ms), budget),
                          rest \in OracleSeqs(st, Tail(ms), budget)}

\* The collaborator failures among the print events of one operation.
RECURSIVE Failures(_)
Failures(ev) ==
    IF ev = <<>> THEN 0
    ELSE (IF Head(ev).con = "raised" THEN 1 ELSE 0)
         + (IF Head(ev).wr = "failed" THEN 1 ELSE 0)
         + (IF Head(ev).cl = "failed" THEN 1 ELSE 0)
         + Failures(Tail(ev))

NoText == Bytes(<<>>)

Did(op, arg, st) ==
    last' = [op |-> op, arg |-> arg, raised |-> st.raised, ev |-> st.ev, rc |-> st.rc,
             open |-> st.open, close |-> st.close]

Budget == MaxFailures - calls.failures

\* ------------------------------------------------------------------- Init
\* Lines 17-38 of Logger.__init__, which ends in start_logging when a log
\* file name was configured; decs and roms are the settings of address
\* decoding and of the ROM ELF file the behaviours start from.
Constructed(decs, roms) ==
    \E ts \in BOOLEAN, dec \in decs, rom \in roms, lf \in BOOLEAN, openFails \in BOOLEAN :
        /\ openFails => lf
        /\ log_filename = lf
        /\ enable_address_decoding = dec
        /\ rom_elf_file = rom
        /\ now = 0
        /\ LET new == [log_file |-> 0, output_enabled |-> TRUE, start_of_line |-> TRUE,
                       timestamps |-> ts, pc_address_buffer |-> <<>>, console |-> <<>>,
                       handles |-> <<>>, disk |-> <<>>, notices |-> <<>>,
                       ev |-> <<>>, rc |-> <<>>, open |-> "skipped", close |-> "skipped",
                       raised |-> FALSE]
               st == IF lf THEN start_logging(new, 0, openFails) ELSE new
           IN /\ log_file = st.log_file
              /\ output_enabled = st.output_enabled
              /\ start_of_line = st.start_of_line
              /\ timestamps = st.timestamps
              /\ pc_address_buffer = st.pc_address_buffer
              /\ console = st.console
              /\ handles = st.handles
              /\ disk = st.disk
              /\ notices = st.notices
              /\ last = [op |-> "init", arg |-> NoText, raised |-> st.raised, ev |-> <<>>,
                         rc |-> <<>>, open |-> st.open, close |-> "skipped"]
        /\ calls = [prints |-> 0, toggles |-> 0, handles |-> 0,
                    failures |-> IF openFails THEN 1 ELSE 0]
        /\ job = [started |-> FALSE, text |-> NoText, sol0 |-> TRUE, clock0 |-> 0]
        /\ pending = <<>>
        /\ stream = [inp |-> <<>>, out |-> <<>>, active |-> TRUE, fixed |-> TRUE, empties |-> 0]
        /\ threads = [reader |-> "idle", input |-> "idle", string |-> NoText, out |-> NoText,
                      con |-> "skipped", close |-> "skipped"]

\* ---------------------------------------------------------------- actions
Config == <<log_filename, enable_address_decoding, rom_elf_file>>
Chunked == <<job, pending, stream>>

\* The caller prints one of strings (console.write_bytes is the printer).
PrintOf(strings, max) ==
    /\ calls.prints < max
    /\ ~job.started
    /\ \E string \in strings, orc \in IoOracles(Cur, Budget) :
        LET st == print(Cur, string, "write_bytes", now, orc)
        IN /\ orc.wr => WriteCanFail(string)
           /\ calls.failures + Failures(st.ev) <= MaxFailures
           /\ Commit(st)
           /\ Did("print", string, st)
           /\ calls' = [calls EXCEPT !.prints = @ + 1,
                                     !.failures = @ + Failures(st.ev)]
    /\ UNCHANGED <<Config, threads, now, Chunked>>

ToggleLoggingOf(max) ==
    /\ calls.toggles < max
    /\ \E fails \in BOOLEAN :
        LET st == toggle_logging(Cur, now, fails, fails)
        IN /\ fails => Budget > 0
           /\ Commit(st)
           /\ Did("toggle_logging", NoText, st)
           /\ calls' = [calls EXCEPT !.toggles = @ + 1,
                                     !.failures = @ + IF fails THEN 1 ELSE 0]
    /\ UNCHANGED <<Config, threads, now, Chunked>>

StartLogging ==
    /\ calls.toggles < MaxToggles
    /\ \E fails \in BOOLEAN :
        LET st == start_logging(Cur, now, fails)
        IN /\ fails => (Budget > 0 /\ log_file = 0)
           /\ Commit(st)
           /\ Did("start_logging", NoText, st)
           /\ calls' = [calls EXCEPT !.toggles = @ + 1,
                                     !.failures = @ + IF fails THEN 1 ELSE 0]
    /\ UNCHANGED <<Config, threads, now, Chunked>>

StopLogging ==
    /\ calls.toggles < MaxToggles
    /\ \E fails \in BOOLEAN :
        LET st == stop_logging(Cur, fails)
        IN /\ fails => (Budget > 0 /\ log_file # 0)
           /\ Commit(st)
           /\ Did("stop_logging", NoText, st)
           /\ calls' = [calls EXCEPT !.toggles = @ + 1,
                                     !.failures = @ + IF fails THEN 1 ELSE 0]
    /\ UNCHANGED <<Config, threads, now, Chunked>>

ToggleTimestamps ==
    /\ calls.toggles < MaxToggles
    /\ LET st == toggle_timestamps(Cur)
       IN /\ Commit(st)
          /\ Did("toggle_timestamps", NoText, st)
    /\ calls' = [calls EXCEPT !.toggles = @ + 1]
    /\ UNCHANGED <<Config, threads, now, Chunked>>

OutputToggleOf(max) ==
    /\ calls.toggles < max
    /\ ~job.started
    /\ LET st == output_toggle(Cur)
       IN /\ Commit(st)
          /\ Did("output_toggle", NoText, st)
    /\ calls' = [calls EXCEPT !.toggles = @ + 1]
    /\ UNCHANGED <<Config, threads, now, Chunked>>

\* Lines 44-46: the caller stores the unfinished end of a chunk.
SetPcAddressBuffer ==
    /\ calls.handles < MaxHandles
    /\ \E value \in BufferValues :
        /\ value # pc_address_buffer
        /\ LET st == [Cur EXCEPT !.pc_address_buffer = value]
           IN /\ Commit(st)
              /\ Did("pc_address_buffer", Bytes(value), st)
    /\ UNCHANGED <<Config, threads, now, calls, Chunked>>

HandlePossiblePcAddressInLine ==
    /\ calls.handles < MaxHandles
    /\ \E line \in Lines :
        \E orcs \in OracleSeqs(Cur, Matches(pc_address_buffer \o line), Budget) :
            LET st == handle_possible_pc_address_in_line(Cur, line, now, orcs)
            IN /\ calls.failures + Failures(st.ev) <= MaxFailures
               /\ Commit(st)
               /\ Did("handle_possible_pc_address_in_line", Bytes(line), st)
               /\ calls' = [calls EXCEPT !.handles = @ + 1,
                                         !.failures = @ + Failures(st.ev)]
    /\ UNCHANGED <<Config, threads, now, Chunked>>

\* A second passes on the wall clock.
Tick ==
    /\ now < MaxClock
    /\ now' = now + 1
    /\ UNCHANGED <<log_file, output_enabled, start_of_line, timestamps, pc_address_buffer,
                   console, handles, disk, notices, last, calls, Config, threads, Chunked>>

\* ------------------------------------------- the sinks and the log's life
Init == Constructed({FALSE}, {FALSE})

PrintChunk == PrintOf(Chunks, MaxPrints)
ToggleLogging == ToggleLoggingOf(MaxToggles)
OutputToggle == OutputToggleOf(MaxToggles)

Next ==
    \/ PrintChunk
    \/ ToggleLogging
    \/ StartLogging
    \/ StopLogging
    \/ ToggleTimestamps
    \/ OutputToggle
    \/ Tick

Spec == Init /\ [][Next]_vars

\* ---------------------------------------------------------- the annotator
\* The serial reader prints a line and hands it to the annotator, all within
\* one second of the clock.
AnnotInit == Constructed(BOOLEAN, BOOLEAN)

PrintLine == PrintOf({Bytes(l) : l \in Lines}, MaxLinePrints)
AnnotToggleLogging == ToggleLoggingOf(MaxLineToggles)
AnnotOutputToggle == OutputToggleOf(MaxLineToggles)

AnnotNext ==
    \/ PrintLine
    \/ AnnotToggleLogging
    \/ AnnotOutputToggle
    \/ SetPcAddressBuffer
    \/ HandlePossiblePcAddressInLine

SpecAnnot == AnnotInit /\ [][AnnotNext]_vars

\* ------------------------------------------------------- chunked delivery
\* A text reaches print in consecutive chunks, cut anywhere.
RECURSIVE SeqsUpTo(_, _)
SeqsUpTo(alphabet, n) ==
    IF n = 0 THEN {<<>>}
    ELSE LET shorter == SeqsUpTo(alphabet, n - 1)
         IN shorter \cup {Append(s, c) : s \in {x \in shorter : Len(x) = n - 1}, c \in alphabet}

Texts ==
    {Bytes(s) : s \in SeqsUpTo({"a", NL}, MaxText)}
        \cup {Bytes(<<"a", "b", "c", "d", "e", "f", NL>>), Str(<<EAcute, NL, "a">>)}

ChunkInit == Constructed({FALSE}, {FALSE})

SetupPrint == PrintOf({Bytes(<<"a">>)}, MaxSetup)
SetupOutputToggle == OutputToggleOf(MaxSetup)

\* The device starts sending a text.
StartJob ==
    /\ ~job.started
    /\ \E text \in Texts :
        /\ job' = [started |-> TRUE, text |-> text, sol0 |-> start_of_line, clock0 |-> now]
        /\ pending' = text.s
    /\ stream' = [inp |-> <<>>, out |-> <<>>, active |-> TRUE, fixed |-> TRUE, empties |-> 0]
    /\ UNCHANGED <<log_file, output_enabled, start_of_line, timestamps, pc_address_buffer,
                   console, handles, disk, notices, last, calls, Config, threads, now>>

\* The caller prints the next k characters of the text.
Deliver ==
    /\ job.started
    /\ \E k \in 0..Len(pending), orc \in IoOracles(Cur, Budget) :
        LET string == [text |-> job.text.text, s |-> SubSeq(pending, 1, k)]
            st == print(Cur, string, "write_bytes", now, orc)
        IN /\ k = 0 => stream.empties < MaxEmpty
           /\ orc.wr => WriteCanFail(string)
           /\ calls.failures + Failures(st.ev) <= MaxFailures
           /\ Commit(st)
           /\ Did("print", string, st)
           /\ calls' = [calls EXCEPT !.prints = @ + 1,
                                     !.failures = @ + Failures(st.ev)]
           /\ pending' = SubSeq(pending, k + 1, Len(pending))
           /\ stream' = [inp |-> stream.inp \o string.s,
                         out |-> stream.out \o st.ev[1].out.s,
                         active |-> stream.active /\ timestamps
                                        /\ (output_enabled \/ log_file # 0),
                         fixed |-> stream.fixed /\ now = job.clock0,
                         empties |-> stream.empties + IF k = 0 THEN 1 ELSE 0]
    /\ UNCHANGED <<Config, threads, now, job>>

ChunkNext ==
    \/ SetupPrint
    \/ SetupOutputToggle
    \/ StartJob
    \/ Deliver
    \/ Tick

SpecChunks == ChunkInit /\ [][ChunkNext]_vars

\* ----------------------------------------------------------------- claims
\* C1: with timestamps enabled, output enabled or a log file open at every
\* call, and one clock reading, the strings emitted for the chunks of a text,
\* concatenated, are the string one print call emits for the text delivered
\* so far from the same _start_of_line, and _start_of_line ends the same.
C1_ChunkBoundaryInvariance ==
    (job.started /\ stream.active /\ stream.fixed) =>
        LET whole == Format([text |-> job.text.text, s |-> stream.inp], TRUE, TRUE, TRUE,
                            job.sol0, job.clock0)
        IN /\ stream.out = whole.out.s
           /\ start_of_line = whole.sol

\* The text "a\na" has arrived as "a" and "\na", timestamped.
C1_Witness ==
    /\ job.started /\ stream.active /\ stream.fixed /\ pending = <<>>
    /\ stream.inp = <<"a", NL, "a">>
    /\ last.arg.s = <<NL, "a">>

IsStamp(c) == \E i \in 1..Len(TimeStr) : c = TimeStr[i]

\* The stamps of out are at the first character when the stream began at a
\* line start, right after every newline that something follows, and nowhere
\* else; a space follows each.
WellStamped(out, sol0) ==
    \A i \in 1..Len(out) :
        /\ IsStamp(out[i]) <=> ((i = 1 /\ sol0) \/ (i > 1 /\ out[i - 1] = NL))
        /\ IsStamp(out[i]) => (i < Len(out) /\ out[i + 1] = SP)

\* C2: with timestamps enabled and output or logging enabled at every call,
\* the emitted stream carries the timestamp prefix at the first character of
\* every line and nowhere else, however the text was cut into chunks.
C2_TimestampOncePerLine ==
    (job.started /\ stream.active) => WellStamped(stream.out, job.sol0)

\* "abc" then "def\n" at a line start: one prefix, before "abc".
C2_Witness ==
    /\ job.started /\ stream.active /\ job.sol0
    /\ last.arg.s = <<"d", "e", "f", NL>>
    /\ stream.out = <<"T0", SP, "a", "b", "c", "d", "e", "f", NL>>

Count(seq, x) == Cardinality({i \in DOMAIN seq : seq[i] = x})
LastNotice == IF notices = <<>> THEN "none" ELSE notices[Len(notices)]

\* The step is a print call of the caller.
PrintStep == calls'.prints = calls.prints + 1

\* C3: a print made while timestamps is false hands the chunk itself to the
\* console when output is enabled, and appends the chunk's bytes to the log
\* file when one is open, unless that very sink fails; nothing else reaches
\* either.
C3_Passthrough ==
    [][(PrintStep /\ ~timestamps) =>
          LET e == last'.ev[1]
          IN /\ (output_enabled /\ e.con # "raised") =>
                    console' = Append(console, [printer |-> "write_bytes", str |-> last'.arg])
             /\ ~output_enabled => console' = console
             /\ (log_file # 0 /\ e.wr # "failed") =>
                    disk'[handles[log_file].name]
                        = disk[handles[log_file].name] \o Encode(last'.arg).s
             /\ log_file = 0 => disk' = disk]_vars

\* C4: the log files opened one after the other are distinct files, and each
\* holds exactly the bytes written through its file object.
C4_DistinctLogFiles ==
    /\ \A h1, h2 \in DOMAIN handles : h1 # h2 => handles[h1].name # handles[h2].name
    /\ \A h \in DOMAIN handles : disk[handles[h].name] = handles[h].written

\* C5: the only file object that can be open is the one log_file holds: every
\* other one open() returned has been closed.
C5_AtMostOneOpenHandle ==
    \A h \in DOMAIN handles : ~handles[h].closed => h = log_file

\* Logging was turned off and on again: the first file object is closed, the
\* second is the open one.
C5_Witness ==
    /\ Len(handles) = 2
    /\ handles[1].closed
    /\ log_file = 2

\* C6: a print whose log write fails reports it once and leaves log_file
\* None; a print made while log_file is None attempts no write, reports no
\* write failure and leaves log_file None.
C6_WriteFailureDisablesLogging ==
    [][PrintStep =>
          LET e == last'.ev[1]
          IN /\ e.wr = "failed" =>
                    /\ log_file' = 0
                    /\ Count(notices', "write_failed") = Count(notices, "write_failed") + 1
             /\ log_file = 0 =>
                    /\ e.wr = "skipped"
                    /\ notices' = notices
                    /\ log_file' = 0]_vars

\* A print after the print whose write failed, with no start of logging between.
C6_Witness ==
    /\ last.op = "print"
    /\ calls.prints = 2
    /\ Count(notices, "write_failed") = 1
    /\ LastNotice \in {"disabled", "close_failed"}
    /\ last.ev[1].wr = "skipped"
    /\ log_file = 0

\* C7: in a print with output enabled and a log file open, a console printer
\* that raises does not keep the chunk from the log file, and a log write
\* that fails does not keep it from the console.
C7_SinksIndependent ==
    \A i \in DOMAIN last.ev :
        /\ (last.ev[i].con = "raised" /\ log_file # 0) => last.ev[i].wr # "skipped"
        /\ (last.ev[i].wr = "failed" /\ output_enabled) => last.ev[i].con = "ok"

\* C8: a start_logging whose open fails raises nothing, reports the failure
\* and leaves log_file None; the prints that follow attempt no log write.
C8_CreateFailureKeepsLoggingOff ==
    /\ last.open = "failed" =>
          /\ last.op \in {"init", "start_logging", "toggle_logging"}
          /\ ~last.raised
          /\ LastNotice = "create_failed"
          /\ log_file = 0
    /\ (last.op = "print" /\ LastNotice = "create_failed") =>
          /\ log_file = 0
          /\ last.ev[1].wr = "skipped"
          /\ output_enabled => last.ev[1].con # "skipped"

\* A chunk was printed to the console after the log file could not be created.
C8_Witness ==
    /\ last.op = "print"
    /\ LastNotice = "create_failed"
    /\ last.ev[1].con = "ok"
    /\ last.arg.s # <<>>

\* The step is a call of handle_possible_pc_address_in_line.
HandleStep == calls'.handles = calls.handles + 1

HandleOp == "handle_possible_pc_address_in_line"

EndsWith(s, suffix) ==
    /\ Len(s) >= Len(suffix)
    /\ SubSeq(s, Len(s) - Len(suffix) + 1, Len(s)) = suffix

\* C9: the line "Backtrace: 0x400d1234 0x400d5678\n" is printed and handed to
\* the annotator, both addresses are in the app image and the resolver
\* describes both: the console shows the line, then the annotation of the
\* first address, then that of the second, and _start_of_line is true.
C9_BacktraceAnnotated ==
    (/\ last.op = HandleOp
     /\ last.arg.s = BacktraceLine
     /\ calls.prints = 1
     /\ Len(console) = 3
     /\ console[1].printer = "write_bytes"
     /\ EndsWith(console[1].str.s, BacktraceLine)
     /\ Len(last.rc) = 2
     /\ ~last.raised)
    => /\ console[2].printer = "yellow_print"
       /\ console[3].printer = "yellow_print"
       /\ \E d \in {<<"func_a at a.c:10">>, <<"func_a at a.c:10", NL>>} :
              EndsWith(console[2].str.s, d)
       /\ \E d \in {<<"func_b at b.c:20">>, <<"func_b at b.c:20", NL>>} :
              EndsWith(console[3].str.s, d)
       /\ start_of_line

\* The address a resolver call was made for is executable in the image it was
\* made against.
Resolvable(call) ==
    IF call.is_rom
    THEN rom_elf_file /\ is_executable_address(RomRanges, Int16(call.num))
    ELSE is_executable_address(AppRanges, Int16(call.num))

\* No range of the app image, nor of the ROM image when one is configured,
\* holds the address of the token.
OutsideAll(num) ==
    /\ ~is_executable_address(AppRanges, Int16(num))
    /\ ~(rom_elf_file /\ is_executable_address(RomRanges, Int16(num)))

\* C10: handle_possible_pc_address_in_line calls the resolver for no token
\* that lies outside the executable ranges of the app image and of the ROM
\* image (if any); when every token of the line does, it resolves nothing,
\* prints nothing and leaves the console, the log and _start_of_line alone.
C10_OutsideAddressIgnored ==
    [][HandleStep =>
          \A ms \in {Matches(pc_address_buffer \o last'.arg.s)} :
             /\ \A i \in DOMAIN last'.rc : Resolvable(last'.rc[i])
             /\ (\A i \in DOMAIN ms : OutsideAll(ms[i])) =>
                    /\ last'.rc = <<>>
                    /\ last'.ev = <<>>
                    /\ ~last'.raised
                    /\ UNCHANGED <<console, disk, handles, log_file, notices,
                                   start_of_line, output_enabled, timestamps>>]_vars

\* "pc 0x12345678\n" was printed and handed to the annotator, with address
\* decoding on and a ROM image configured: the console holds the line alone.
C10_Witness ==
    /\ last.op = HandleOp
    /\ last.arg.s = <<"p", "c", SP>> \o Tok12345678 \o <<NL>>
    /\ enable_address_decoding
    /\ rom_elf_file
    /\ calls.prints = 1
    /\ console = <<[printer |-> "write_bytes", str |-> last.arg]>>

\* ------------------------------------- split delivery to the annotator
\* A line reaches handle_possible_pc_address_in_line in two chunks; between
\* the two calls the caller stores the unfinished end of the first chunk in
\* pc_address_buffer.

\* The positions where re.finditer finds a match of ADDRESS_RE.
RECURSIVE MatchStarts(_, _)
MatchStarts(chars, i) ==
    IF i > Len(chars) THEN {}
    ELSE IF MatchAt(chars, i) THEN {i} \cup MatchStarts(chars, i + 2 + AddrDigits)
    ELSE MatchStarts(chars, i + 1)

\* s can still become a match of ADDRESS_RE when more digits follow.
IsTokenPrefix(s) ==
    /\ Len(s) >= 1
    /\ Len(s) <= 1 + AddrDigits
    /\ s[1] = "0"
    /\ Len(s) >= 2 => s[2] \in {"x", "X"}
    /\ \A k \in 3..Len(s) : s[k] \in HexDigits

\* The trailing run of the chunk that the next chunk may complete to an
\* address: the longest end of the chunk that is the beginning of a token.
TrailingRun(chunk) ==
    LET n == Len(chunk)
        lens == {l \in 1..n : IsTokenPrefix(SubSeq(chunk, n - l + 1, n))}
    IN IF lens = {} THEN <<>>
       ELSE LET l == CHOOSE x \in lens : \A y \in lens : y <= x
            IN SubSeq(chunk, n - l + 1, n)

\* The symbolizer answers the same way for every address of the line, and no
\* sink fails.
FixedOracles(ms, kind) == [i \in DOMAIN ms |-> [app |-> kind, rom |-> kind, io |-> NoFail]]

SplitInit == Constructed({TRUE}, BOOLEAN)

SplitOutputToggle == OutputToggleOf(MaxSetup)

\* The device sends a line that will arrive cut after its first cut bytes;
\* mid tells whether the cut falls inside an address of the line.
StartSplit ==
    /\ ~job.started
    /\ \E line \in Lines, kind \in ResolverKinds :
        \E cut \in 1..(Len(line) - 1) :
            /\ job' = [started |-> TRUE, text |-> Bytes(line), cut |-> cut, kind |-> kind,
                       st0 |-> Cur, clock0 |-> now,
                       mid |-> \E p \in MatchStarts(Decode(line), 1) :
                                   p <= cut /\ cut < p + 1 + AddrDigits]
            /\ pending' = line
    /\ stream' = [inp |-> <<>>, out |-> <<>>, rc |-> <<>>, carried |-> FALSE]
    /\ UNCHANGED <<log_file, output_enabled, start_of_line, timestamps, pc_address_buffer,
                   console, handles, disk, notices, last, calls, Config, threads, now>>

\* The caller hands the next chunk of the line to the annotator.
HandleChunk ==
    /\ job.started
    /\ pending # <<>>
    /\ stream.inp # <<>> => stream.carried
    /\ LET chunk == IF stream.inp = <<>> THEN SubSeq(pending, 1, job.cut) ELSE pending
           orcs == FixedOracles(Matches(pc_address_buffer \o chunk), job.kind)
           st == handle_possible_pc_address_in_line(Cur, chunk, now, orcs)
       IN /\ Commit(st)
          /\ Did("handle_possible_pc_address_in_line", Bytes(chunk), st)
          /\ pending' = SubSeq(pending, Len(chunk) + 1, Len(pending))
          /\ stream' = [inp |-> stream.inp \o chunk,
                        out |-> stream.out \o [i \in DOMAIN st.ev |-> st.ev[i].out],
                        rc |-> stream.rc \o st.rc,
                        carried |-> FALSE]
    /\ calls' = [calls EXCEPT !.handles = @ + 1]
    /\ UNCHANGED <<Config, threads, now, job>>

\* Lines 44-46: between the chunks the caller stores the trailing run of the
\* first one.
CarryOver ==
    /\ job.started
    /\ stream.inp # <<>>
    /\ pending # <<>>
    /\ ~stream.carried
    /\ LET value == TrailingRun(stream.inp)
           st == [Cur EXCEPT !.pc_address_buffer = value]
       IN /\ Commit(st)
          /\ Did("pc_address_buffer", Bytes(value), st)
    /\ stream' = [stream EXCEPT !.carried = TRUE]
    /\ UNCHANGED <<Config, threads, now, calls, job, pending>>

SplitNext ==
    \/ SplitOutputToggle
    \/ StartSplit
    \/ HandleChunk
    \/ CarryOver

SpecSplit == SplitInit /\ [][SplitNext]_vars

\* C11: a line cut inside an address arrives in two chunks: after the first
\* the beginning of the address is in the buffer, and the resolver calls, the
\* annotations printed and _start_of_line after the second are those of one
\* call with the whole line.
C11_SplitTokenResolved ==
    /\ (job.started /\ job.mid /\ stream.carried) =>
          \E p \in 1..Len(pc_address_buffer) : MatchAt(pc_address_buffer \o pending, p)
    /\ (job.started /\ job.mid /\ pending = <<>>) =>
          LET orcs == FixedOracles(Matches(job.text.s), job.kind)
              whole == handle_possible_pc_address_in_line(job.st0, job.text.s,
                                                          job.clock0, orcs)
          IN /\ stream.rc = whole.rc
             /\ stream.out = [i \in DOMAIN whole.ev |-> whole.ev[i].out]
             /\ start_of_line = whole.start_of_line
             /\ pc_address_buffer = whole.pc_address_buffer

\* The backtrace line arrived as "Backtrace: 0x400d1234 0x400" and "d5678\n":
\* the second call resolved 0x400d5678 and both annotations were printed.
C11_Witness ==
    /\ job.started /\ job.mid /\ pending = <<>>
    /\ job.text.s = BacktraceLine
    /\ job.cut = 27
    /\ Len(stream.out) = 2
    /\ Len(last.rc) = 1
    /\ last.rc[1].num = Tok400d5678

\* C12: no operation of the Logger lets an exception of a collaborator (the
\* console writer, the log file's open, write and close, the resolver) reach
\* its caller.
C12_NoOperationRaises == ~last.raised

\* The bytes the strings handed to the console printer encode to, in order.
RECURSIVE Mirrored(_)
Mirrored(entries) ==
    IF entries = <<>> THEN <<>>
    ELSE Encode(Head(entries).str).s \o Mirrored(Tail(entries))

\* C13: in every step made with output enabled that leaves the same log file
\* open, the bytes appended to the log file are the encoding of the strings
\* the step handed to the console printer, in order: device text and
\* annotations alike, timestamp prefixes included.
C13_LogMirrorsConsole ==
    [][(output_enabled /\ log_file # 0 /\ log_file' = log_file) =>
          \A added \in {Mirrored(SubSeq(console', Len(console) + 1, Len(console')))} :
              /\ handles'[log_file].written = handles[log_file].written \o added
              /\ disk'[handles[log_file].name] = disk[handles[log_file].name] \o added]_vars

\* The backtrace line and its two annotations, timestamped, are on the
\* console and in the log file that was open from the start.
C13_Witness ==
    /\ last.op = HandleOp
    /\ timestamps
    /\ output_enabled
    /\ log_file # 0
    /\ Len(console) = 3
    /\ console[3].printer = "yellow_print"
    /\ IsStamp(console[3].str.s[1])
    /\ handles[log_file].written = Mirrored(console)

\* The step is a call of output_toggle.
OutputToggleStep == last'.op = "output_toggle" /\ calls'.toggles = calls.toggles + 1

\* C14: output_toggle flips output_enabled and leaves log_file, timestamps,
\* _start_of_line, the pending buffer and the log file's bytes alone; and a
\* print made with a log file open, whose write does not fail, appends the
\* bytes it appends with output disabled, whether output is enabled or not.
C14_OutputToggleLeavesLogging ==
    [][/\ OutputToggleStep =>
              /\ output_enabled' = ~output_enabled
              /\ UNCHANGED <<log_file, timestamps, start_of_line, pc_address_buffer,
                             handles, disk>>
       /\ (PrintStep /\ log_file # 0 /\ last'.ev[1].wr # "failed") =>
              \A quiet \in {Format(last'.arg, timestamps, FALSE, TRUE, start_of_line, now)} :
                  handles'[log_file].written
                      = handles[log_file].written \o Encode(quiet.out).s]_vars

\* The step is a call of stop_logging.
StopLoggingStep == last'.op = "stop_logging" /\ calls'.toggles = calls.toggles + 1

\* C15: stop_logging raises nothing and leaves log_file None, the file object
\* closed, whether close() succeeded or raised, and one notice tells which;
\* called with no log file open it changes nothing and reports nothing. The
\* same holds where toggle_logging and print call it.
C15_StopLoggingReleases ==
    [][/\ StopLoggingStep =>
              /\ log_file' = 0
              /\ ~last'.raised
              /\ log_file # 0 =>
                     /\ handles'[log_file].closed
                     /\ last'.close \in {"ok", "failed"}
                     /\ notices' = Append(notices, IF last'.close = "failed"
                                                   THEN "close_failed" ELSE "disabled")
              /\ log_file = 0 =>
                     /\ last'.close = "skipped"
                     /\ UNCHANGED <<log_file, output_enabled, start_of_line, timestamps,
                                    pc_address_buffer, console, handles, disk, notices>>
       /\ (calls' # calls /\ (\/ last'.close # "skipped"
                              \/ \E i \in DOMAIN last'.ev : last'.ev[i].cl # "skipped")) =>
              /\ log_file' = 0
              /\ log_file # 0
              /\ handles'[log_file].closed]_vars

\* stop_logging was called with a log file open, and close() raised.
C15_Witness ==
    /\ last.op = "stop_logging"
    /\ last.close = "failed"
    /\ LastNotice = "close_failed"
    /\ log_file = 0
    /\ Len(handles) = 1
    /\ handles[1].closed

\* C16: the resolver is asked about the ROM image only for an address the app
\* matcher does not accept, and only when a ROM image is configured: no
\* address executable in the app image is resolved against the ROM image.
C16_AppMatcherFirst ==
    \A i \in DOMAIN last.rc :
        last.rc[i].is_rom =>
            /\ rom_elf_file
            /\ ~is_executable_address(AppRanges, Int16(last.rc[i].num))

\* C17: a print of an empty chunk changes no field of the Logger, whatever
\* timestamps, output_enabled and log_file are: _start_of_line, log_file and
\* the toggles stay, the string handed to the sinks is the empty chunk (no
\* timestamp prefix), and no byte reaches the log file.
C17_EmptyChunkNoChange ==
    [][(PrintStep /\ last'.arg.s = <<>>) =>
          /\ UNCHANGED <<start_of_line, log_file, timestamps, output_enabled,
                         pc_address_buffer, handles, disk, notices>>
          /\ last'.ev[1].out = last'.arg
          /\ \A i \in DOMAIN console' : i > Len(console) => console'[i].str.s = <<>>]_vars

\* An empty chunk was printed at a line start with timestamps enabled, to the
\* console and to an open log file.
C17_Witness ==
    /\ last.op = "print"
    /\ last.arg.s = <<>>
    /\ timestamps
    /\ start_of_line
    /\ last.ev[1].con = "ok"
    /\ last.ev[1].wr = "ok"
    /\ log_file # 0

\* C18: after a print of a non-empty chunk _start_of_line tells whether the
\* chunk ended with a newline, whatever timestamps, output_enabled and
\* log_file are; no other operation changes it; and a timestamp prefix is
\* put only before the first character of a chunk that begins a line and
\* after a newline inside the chunk.
C18_LineStartTracking ==
    [][/\ (PrintStep /\ last'.arg.s # <<>>) =>
              start_of_line' = EndsWithNL(last'.arg.s)
       /\ PrintStep =>
              \A out \in {last'.ev[1].out.s} :
                  \A i \in 1..Len(out) :
                      IsStamp(out[i]) =>
                          ((i = 1 /\ start_of_line) \/ (i > 1 /\ out[i - 1] = NL))
       /\ ~PrintStep => start_of_line' = start_of_line]_vars

\* "a" was printed with timestamps off, timestamps were turned on, and "a"
\* was printed again: it continues the line and carries no prefix.
C18_Witness ==
    /\ last.op = "print"
    /\ calls.prints = 2
    /\ timestamps
    /\ ~start_of_line
    /\ Len(console) = 2
    /\ console[1].str.s = <<"a">>
    /\ console[2].str.s = <<"a">>

\* ------------------------------------------------ two threads, one Logger
\* print runs on the thread that reads the serial port while stop_logging and
\* start_logging run on the thread that handles the keys. The Logger holds no
\* lock, so a call of one thread can stand between two accesses of _log_file
\* while the other thread runs.

\* Lines 97-135 of Logger.print: the string is formatted and handed to the
\* console, then _log_file is tested; toWrite tells whether the try of lines
\* 136-143 comes next.
print_until_log_test(st, string, printer, clock, conRaises) ==
    LET f == Format(string, st.timestamps, st.output_enabled, st.log_file # 0,
                    st.start_of_line, clock)
        s1 == [st EXCEPT !.start_of_line = f.sol]
        conCalled == st.output_enabled
        conRaised == conCalled /\ conRaises
        s2 == IF conCalled /\ ~conRaised
              THEN [s1 EXCEPT !.console = Append(@, [printer |-> printer, str |-> f.out])]
              ELSE s1
    IN [st |-> [s2 EXCEPT !.raised = conRaised],
        out |-> f.out,
        con |-> IF ~conCalled THEN "skipped" ELSE IF conRaised THEN "raised" ELSE "ok",
        toWrite |-> ~conRaised /\ st.log_file # 0]

\* Lines 136-143 of Logger.print: self._log_file is read again for the write.
\* None has no write (AttributeError) and a closed file object refuses the
\* write (ValueError); both are caught like a failed write.
print_write(st, out, wrFails, clFails) ==
    LET h == st.log_file
        wr == IF h = 0 THEN "none"
              ELSE IF st.handles[h].closed THEN "closed"
              ELSE IF wrFails THEN "failed" ELSE "ok"
        s3 == IF wr = "ok" THEN WriteFile(st, Encode(out).s) ELSE st
        s4 == IF wr # "ok" THEN stop_logging(Notice(s3, "write_failed"), clFails) ELSE s3
    IN [st |-> s4, wr |-> wr]

\* Lines 87-93 of Logger.stop_logging, with a log file open: the close and
\* its notice.
stop_logging_try(st, closeFails) ==
    LET s1 == CloseFile(st)
    IN [Notice(s1, IF closeFails THEN "close_failed" ELSE "disabled")
            EXCEPT !.close = IF closeFails THEN "failed" ELSE "ok"]

\* Lines 94-95 of Logger.stop_logging: the finally clause.
stop_logging_finally(st) == [st EXCEPT !.log_file = 0]

ThreadInit == Constructed({FALSE}, {FALSE})

\* The reader's thread starts a print and stops before the write to the log.
ReaderPrint ==
    /\ threads.reader = "idle"
    /\ calls.prints < MaxPrints
    /\ \E string \in Chunks, conRaises \in BOOLEAN :
        LET r == print_until_log_test(Cur, string, "write_bytes", now, conRaises)
            e == [inp |-> string, out |-> r.out, printer |-> "write_bytes",
                  con |-> r.con, wr |-> "skipped", cl |-> "skipped"]
        IN /\ conRaises => (output_enabled /\ Budget > 0)
           /\ Commit(r.st)
           /\ IF r.toWrite
              THEN /\ threads' = [threads EXCEPT !.reader = "write", !.string = string,
                                                 !.out = r.out, !.con = r.con]
                   /\ UNCHANGED <<last, calls>>
              ELSE /\ Did("print", string, [r.st EXCEPT !.ev = <<e>>])
                   /\ calls' = [calls EXCEPT !.prints = @ + 1,
                                             !.failures = @ + IF conRaises THEN 1 ELSE 0]
                   /\ UNCHANGED threads
    /\ UNCHANGED <<Config, now, Chunked>>

\* The reader's thread goes on to the write, on what _log_file holds by now.
ReaderWrite ==
    /\ threads.reader = "write"
    /\ \E wrFails \in BOOLEAN, clFails \in BOOLEAN :
        LET r == print_write(Cur, threads.out, wrFails, clFails)
            e == [inp |-> threads.string, out |-> threads.out, printer |-> "write_bytes",
                  con |-> threads.con, wr |-> r.wr, cl |-> r.st.close]
            failed == (IF wrFails THEN 1 ELSE 0) + (IF clFails THEN 1 ELSE 0)
        IN /\ wrFails => (r.wr = "failed" /\ WriteCanFail(threads.out))
           /\ clFails => wrFails
           /\ failed <= Budget
           /\ Commit(r.st)
           /\ Did("print", threads.string, [r.st EXCEPT !.ev = <<e>>])
           /\ calls' = [calls EXCEPT !.prints = @ + 1, !.failures = @ + failed]
    /\ threads' = [threads EXCEPT !.reader = "idle"]
    /\ UNCHANGED <<Config, now, Chunked>>

\* The keys' thread calls stop_logging and stops before the finally clause.
InputStopLogging ==
    /\ threads.input = "idle"
    /\ calls.toggles < MaxToggles
    /\ IF log_file = 0
       THEN /\ Commit(Cur)
            /\ Did("stop_logging", NoText, Cur)
            /\ calls' = [calls EXCEPT !.toggles = @ + 1]
            /\ UNCHANGED threads
       ELSE \E fails \in BOOLEAN :
            LET st == stop_logging_try(Cur, fails)
            IN /\ fails => Budget > 0
               /\ Commit(st)
               /\ threads' = [threads EXCEPT !.input = "release", !.close = st.close]
               /\ calls' = [calls EXCEPT !.toggles = @ + 1,
                                         !.failures = @ + IF fails THEN 1 ELSE 0]
               /\ UNCHANGED last
    /\ UNCHANGED <<Config, now, Chunked>>

\* The keys' thread sets _log_file to None and returns from stop_logging.
InputRelease ==
    /\ threads.input = "release"
    /\ LET st == stop_logging_finally([Cur EXCEPT !.close = threads.close])
       IN /\ Commit(st)
          /\ Did("stop_logging", NoText, st)
    /\ threads' = [threads EXCEPT !.input = "idle"]
    /\ UNCHANGED <<Config, now, calls, Chunked>>

\* The keys' thread calls start_logging.
InputStartLogging ==
    /\ threads.input = "idle"
    /\ StartLogging

ThreadNext ==
    \/ ReaderPrint
    \/ ReaderWrite
    \/ InputStopLogging
    \/ InputRelease
    \/ InputStartLogging

SpecThreads == ThreadInit /\ [][ThreadNext]_vars

\* C19: with print on one thread and stop_logging on another, no print
\* attempts its write on a file object that stop_logging has closed, or on
\* the None it has stored, after print found a log file open; so no write
\* failure is reported that no write caused.
C19_LogHandleExclusive ==
    \A i \in DOMAIN last.ev : last.ev[i].wr \notin {"closed", "none"}

\* C20: every call of handle_possible_pc_address_in_line leaves the pending
\* buffer empty, with address decoding enabled or disabled; what the buffer
\* held is prepended to the line of this call: with decoding enabled the
\* addresses resolved are the executable ones among the matches of buffer
\* and line together, with decoding disabled nothing is resolved or printed.
C20_PendingBufferCleared ==
    [][HandleStep =>
          /\ pc_address_buffer' = <<>>
          /\ ~enable_address_decoding => (last'.rc = <<>> /\ last'.ev = <<>>)
          /\ (enable_address_decoding /\ ~last'.raised) =>
                 \A ms \in {Matches(pc_address_buffer \o last'.arg.s)} :
                     {last'.rc[i].num : i \in DOMAIN last'.rc}
                         = {ms[j] : j \in {k \in DOMAIN ms : ~OutsideAll(ms[k])}}]_vars

\* The buffer held "0x40" and the line "0d1234\n" came: 0x400d1234 was
\* resolved and the buffer is empty.
C20_Witness ==
    /\ last.op = HandleOp
    /\ last.arg.s = <<"0", "d", "1", "2", "3", "4", NL>>
    /\ Len(last.rc) = 1
    /\ last.rc[1].num = Tok400d1234
    /\ pc_address_buffer = <<>>

====
